---- MODULE Spec2Model ----
(***************************************************************************)
(* Model of the presentation countdown timer of src/Timer.py.              *)
(*                                                                         *)
(* Two execution contexts are modelled.  The Tk event loop (the UI thread) *)
(* runs one handler at a time: a button command, a listbox selection or a  *)
(* deferred _update_timer callback.  A handler changes the fields of       *)
(* ChurchTimerApp and calls _update_shared_timer_state, which copies five  *)
(* values into the global timer_state dictionary under timer_state_lock.   *)
(* The HTTP thread serves one request at a time and serialises timer_state *)
(* under the same lock.                                                    *)
(*                                                                         *)
(* The fields of ChurchTimerApp are private to the UI thread, so a handler *)
(* is one step on them; what the other thread can see of it, the writes to *)
(* timer_state, is modelled statement by statement: the handler queues the *)
(* snapshots it publishes (pub_queue, in program order, each computed from *)
(* the fields as they stand at that call) and PubAcquire, PubWrite and     *)
(* PubRelease carry them out.  ui_pc names the handler whose publication   *)
(* is in progress; no other handler starts before it is "idle" again.      *)
(*                                                                         *)
(* A modal error dialog (messagebox.showerror and friends) is the variable *)
(* messagebox: it blocks the handlers until it is dismissed.               *)
(***************************************************************************)
EXTENDS Integers, Sequences, FiniteSets, TLC

VARIABLES
    time_left,              \* ChurchTimerApp.time_left (signed seconds)
    running,                \* ChurchTimerApp.running
    pending,                \* number of master.after(1000, _update_timer) callbacks not yet fired
    speakers,               \* ChurchTimerApp.speakers (the roster), a sequence of records
    current_speaker_index,  \* ChurchTimerApp.current_speaker_index, -1 or a 0-based index
    selection,              \* roster_listbox.curselection(): -1 (none) or a 0-based index
    timer_label_text,       \* timer_label's text, as set by _display_time
    warning_message_label_text, \* warning_message_label's text in the main window
    messagebox,             \* title of the modal dialog being shown, or "none"
    ui_pc,                  \* handler of the UI thread whose publication is in progress
    pub_queue,              \* snapshots the running handler has still to copy into timer_state
    pub_field,              \* 0: outside the lock; 1..5: next field to write; 6: about to release;
                            \* 7: about to update the speaker display
    timer_state,            \* the global timer_state dictionary
    timer_state_lock,       \* holder of timer_state_lock: "free", "ui" or "http"
    published,              \* the snapshot of the last publication that ran to completion
    http_pc,                \* position of TimerRequestHandler.do_GET on the HTTP thread
    response,               \* response_data of do_GET, NoResponse outside a request
    path,                   \* self.path of the request being handled, "" outside a request
    status,                 \* the code given to send_response, 0 outside a request
    wfile,                  \* what the handler has written to self.wfile, NoResponse if nothing
    server_pc,              \* position of HttpServerThread.run
    httpd,                  \* HttpServerThread.httpd: "none", or its listening socket "open"/"closed"
    shutdown_request,       \* the flag httpd.shutdown() raises for serve_forever
    is_shut_down,           \* the event serve_forever sets when it has left its loop
    close_pc,               \* position of ChurchTimerApp._on_app_close on the UI thread
    speaker_display_window, \* ChurchTimerApp.speaker_display_window: NoWindow or the window's state
    reset_pending,          \* callbacks pending at the last _reset_timer made while running, not yet fired
    loaded_time,            \* the value time_left was last given from an allocation (load or reset)
    ticks                   \* executions of _update_timer with running set since that load or reset

timerVars  == <<time_left, running, pending, reset_pending, loaded_time, ticks>>
rosterVars == <<speakers, current_speaker_index, selection>>
pubVars    == <<ui_pc, pub_queue, pub_field>>
storeVars  == <<timer_state, timer_state_lock, published>>
labelVars  == <<timer_label_text, warning_message_label_text>>
httpVars   == <<http_pc, response, path, status, wfile>>
serverVars == <<server_pc, httpd, shutdown_request, is_shut_down>>
vars == <<time_left, running, pending, speakers, current_speaker_index, selection,
          timer_label_text, warning_message_label_text, messagebox, ui_pc, pub_queue,
          pub_field, timer_state, timer_state_lock, published, http_pc, response, path,
          status, wfile, server_pc, httpd, shutdown_request, is_shut_down, close_pc,
          speaker_display_window, reset_pending, loaded_time, ticks>>

(***************************************************************************)
(* Bounds of the model and constants of the program.                       *)
(***************************************************************************)
MaxSpeakers == 2
MaxPending == 2
MaxTicks == 3
LongTicks == 70

WarningThreshold == 60

\* What the operator can type into the speaker entries.
NameInputs == {"A", "B"}
TitleInputs == {"T"}
TimeInputs == {<<0, 0>>, <<0, 1>>, <<1, 1>>}
\* Entries _add_update_speaker rejects: an empty name, seconds out of range.
BadInputs == {<<"", 0, 1>>, <<"A", 0, 60>>, <<"A", 1000, 0>>}
\* Entries of the long countdown (SpecCountdown) and of the polled run (SpecPoll).
LongTimeInputs == {<<0, 5>>, <<1, 5>>, <<2, 5>>, <<100, 0>>, <<100, 5>>}
PollTimeInputs == {<<0, 1>>}
Paths == {"/timer_state", "/"}

NoResponse == [none |-> TRUE]
\* The body of the 404 answer, b'404 Not Found'.
NotFoundBody == [text |-> "404 Not Found"]

(***************************************************************************)
(* Pure parts of the program.                                              *)
(***************************************************************************)
Digits == <<"0", "1", "2", "3", "4", "5", "6", "7", "8", "9">>

\* The decimal digits of n >= 0, as str.format writes them.
RECURSIVE Decimal(_)
Decimal(n) ==
    IF n < 10 THEN <<Digits[n + 1]>>
    ELSE Decimal(n \div 10) \o <<Digits[(n % 10) + 1]>>

\* The format specification 02d applied to n >= 0: at least two digits, zero-padded.
Format02d(n) == IF n < 10 THEN <<"0">> \o Decimal(n) ELSE Decimal(n)

\* Mutant of DisplayTime: the sign test is t > 0, so zero is written "-00:00".
DisplayTimeSignAtZero(t) ==
    IF t > 0
    THEN Format02d(t \div 60) \o <<":">> \o Format02d(t % 60)
    ELSE <<"-">> \o Format02d((-t) \div 60) \o <<":">> \o Format02d((-t) % 60)

\* _display_time: the text given to timer_label for a time_left of t.
DisplayTime(t) ==
    IF t >= 0
    THEN Format02d(t \div 60) \o <<":">> \o Format02d(t % 60)
    ELSE LET abs_time_left == -t
         IN  <<"-">> \o Format02d(abs_time_left \div 60) \o <<":">>
                     \o Format02d(abs_time_left % 60)

\* speaker['minutes'] * 60 + speaker['seconds']
Allocation(speaker) == speaker.minutes * 60 + speaker.seconds

\* Mutant of Decrement: the countdown stops at zero.
DecrementToZero(t) == IF t > 0 THEN t - 1 ELSE t

\* self.time_left -= 1
Decrement(t) == t - 1

\* Mutant of IsWarning: the threshold itself is outside the warning range.
IsWarningBelowThreshold(t) == 0 < t /\ t < WarningThreshold

\* The two flags as _update_shared_timer_state computes them.
IsWarning(t) == 0 < t /\ t <= WarningThreshold
IsPastZero(t) == t < 0

\* The text _update_timer gives warning_message_label for a time_left of t.
WarningText(t) ==
    IF t < 0 THEN "TIME'S UP!"
    ELSE IF 0 <= t /\ t <= WarningThreshold THEN "ROUND UP!"
    ELSE ""

\* The text SpeakerDisplayWindow.update_display gives its warning_message_label
\* for the two flags it is passed.
UpdateDisplayWarning(is_warning, is_past_zero) ==
    IF is_past_zero THEN "TIME'S UP!"
    ELSE IF is_warning THEN "ROUND UP!"
    ELSE ""

(***************************************************************************)
(* SpeakerDisplayWindow.  Its state is a record: the texts of its labels,  *)
(* whether the alert colours are on (alert_fg), _is_blinking, whether      *)
(* blink_job_id is set, the number of _toggle_blink_color callbacks        *)
(* registered with after and not yet fired or cancelled (blink_jobs), and  *)
(* the background phase.                                                   *)
(***************************************************************************)
NoWindow == [none |-> TRUE]

\* str.upper(); every name, title and "N/A" of the model is upper-case already.
Upper(text) == text

\* __init__ and _create_widgets
NewWindow ==
    [timer_label           |-> <<"0", "0", ":", "0", "0">>,
     speaker_name_label    |-> "SPEAKER NAME",
     speaker_segment_label |-> "SEGMENT / TOPIC",
     warning_message_label |-> "",
     alert_fg              |-> FALSE,
     is_blinking           |-> FALSE,
     blink_job_id          |-> FALSE,
     blink_jobs            |-> 0,
     bg                    |-> "normal"]

\* Mutant of StartBlinking: the test of _is_blinking is absent.
StartBlinkingAlways(w) ==
    [w EXCEPT !.is_blinking = TRUE, !.bg = "blink",
              !.blink_job_id = TRUE, !.blink_jobs = @ + 1]

\* _start_blinking
StartBlinking(w) ==
    IF ~w.is_blinking
    THEN [w EXCEPT !.is_blinking = TRUE, !.bg = "blink",
                   !.blink_job_id = TRUE, !.blink_jobs = @ + 1]
    ELSE w

\* Mutant of StopBlinking: the pending callback is not cancelled.
StopBlinkingLeavesJob(w) == [w EXCEPT !.is_blinking = FALSE, !.bg = "normal"]

\* _stop_blinking
StopBlinking(w) ==
    LET cancel == w.is_blinking /\ w.blink_job_id
    IN  [w EXCEPT !.blink_jobs = IF cancel /\ @ > 0 THEN @ - 1 ELSE @,
                  !.blink_job_id = IF cancel THEN FALSE ELSE @,
                  !.is_blinking = FALSE,
                  !.bg = "normal"]

\* update_display with the five values of a snapshot
UpdateDisplay(w, snapshot) ==
    LET shown == [w EXCEPT
                     !.timer_label = snapshot.time_text,
                     !.speaker_name_label = Upper(snapshot.speaker_name),
                     !.speaker_segment_label = Upper(snapshot.speaker_segment),
                     !.alert_fg = snapshot.is_warning \/ snapshot.is_past_zero,
                     !.warning_message_label =
                         UpdateDisplayWarning(snapshot.is_warning, snapshot.is_past_zero)]
    IN  IF snapshot.is_past_zero THEN StartBlinking(shown)
        ELSE IF snapshot.is_warning THEN StartBlinking(shown)
        ELSE StopBlinking(shown)

\* _toggle_blink_color, run as a callback that has just fired
ToggleBlinkColor(w) ==
    IF ~w.is_blinking
    THEN [w EXCEPT !.blink_jobs = @ - 1, !.blink_job_id = FALSE]
    ELSE [w EXCEPT !.bg = IF @ = "normal" THEN "blink" ELSE "normal",
                   !.blink_job_id = TRUE]

\* The five values _update_shared_timer_state copies into timer_state, for the
\* fields ChurchTimerApp has at the call.
SharedTimerState(t, label, index, roster) ==
    LET loaded == index # -1 /\ roster # <<>>
    IN  [time_text       |-> label,
         speaker_name    |-> IF loaded THEN roster[index + 1].name ELSE "N/A",
         speaker_segment |-> IF loaded THEN roster[index + 1].title ELSE "N/A",
         is_warning      |-> IsWarning(t),
         is_past_zero    |-> IsPastZero(t)]

\* The module-level initial value of timer_state.
DefaultTimerState ==
    [time_text |-> <<"0", "0", ":", "0", "0">>, speaker_name |-> "N/A",
     speaker_segment |-> "N/A", is_warning |-> FALSE, is_past_zero |-> FALSE]

\* The order in which _update_shared_timer_state assigns the fields.
FieldOrder == <<"time_text", "speaker_name", "speaker_segment", "is_warning", "is_past_zero">>

\* The validation of _add_update_speaker.
ValidEntry(name, minutes, seconds) ==
    /\ name # ""
    /\ 0 <= minutes /\ minutes < 1000
    /\ 0 <= seconds /\ seconds < 60

\* _load_speaker_details(index) on the roster: the index and time it leaves.
LoadedIndex(roster, index) == IF 0 <= index /\ index < Len(roster) THEN index ELSE -1
LoadedTime(roster, index) ==
    IF 0 <= index /\ index < Len(roster) THEN Allocation(roster[index + 1]) ELSE 0

\* del self.speakers[i] (0-based)
DeleteAt(roster, i) == SubSeq(roster, 1, i) \o SubSeq(roster, i + 2, Len(roster))

(***************************************************************************)
(* The state after ChurchTimerApp.__init__, which ends with                *)
(* _load_speaker_details(-1) on an empty roster.                           *)
(***************************************************************************)
Init ==
    /\ time_left = 0
    /\ running = FALSE
    /\ pending = 0
    /\ speakers = <<>>
    /\ current_speaker_index = -1
    /\ selection = -1
    /\ timer_label_text = DisplayTime(0)
    /\ warning_message_label_text = ""
    /\ messagebox = "none"
    /\ ui_pc = "idle"
    /\ pub_queue = <<>>
    /\ pub_field = 0
    /\ timer_state = DefaultTimerState
    /\ timer_state_lock = "free"
    /\ published = DefaultTimerState
    /\ http_pc = "idle"
    /\ response = NoResponse
    /\ path = ""
    /\ status = 0
    /\ wfile = NoResponse
    /\ server_pc = "start"
    /\ httpd = "none"
    /\ shutdown_request = FALSE
    /\ is_shut_down = FALSE
    /\ close_pc = "none"
    /\ speaker_display_window = NoWindow
    /\ reset_pending = 0
    /\ loaded_time = 0
    /\ ticks = 0

\* The event loop dispatches a handler only when the previous one has returned;
\* _on_app_close is a handler like the others and ends the loop.
UIReady == ui_pc = "idle" /\ messagebox = "none" /\ close_pc = "none"

\* A handler hands its snapshots to the publication steps, or publishes nothing.
Publish(handler, snapshots) ==
    /\ ui_pc' = handler
    /\ pub_queue' = snapshots
    /\ pub_field' = 0

Speaker(name, title, minutes, seconds) ==
    [name |-> name, title |-> title, minutes |-> minutes, seconds |-> seconds]

(***************************************************************************)
(* _update_timer, fired by the event loop as a deferred callback.          *)
(***************************************************************************)
\* running is set: count down, show, publish, reschedule (the callback that
\* fired is replaced by the one master.after registers, so pending is unchanged).
UpdateTimerRunning ==
    /\ UIReady
    /\ pending > 0
    /\ running
    /\ time_left' = Decrement(time_left)
    /\ timer_label_text' = DisplayTime(time_left')
    /\ warning_message_label_text' = WarningText(time_left')
    /\ ticks' = ticks + 1
    /\ reset_pending' = IF reset_pending > 0 THEN reset_pending - 1 ELSE 0
    /\ Publish("tick", <<SharedTimerState(time_left', timer_label_text',
                                          current_speaker_index, speakers)>>)
    /\ UNCHANGED <<running, pending, loaded_time, rosterVars, messagebox, storeVars, httpVars, serverVars, close_pc, speaker_display_window>>

\* Mutant of UpdateTimerStale: the callback counts down without testing running.
UpdateTimerStaleCountsDown ==
    /\ UIReady
    /\ pending > 0
    /\ ~running
    /\ time_left' = time_left - 1
    /\ timer_label_text' = DisplayTime(time_left')
    /\ warning_message_label_text' = WarningText(time_left')
    /\ pending' = pending - 1
    /\ reset_pending' = IF reset_pending > 0 THEN reset_pending - 1 ELSE 0
    /\ UNCHANGED <<running, loaded_time, ticks, rosterVars, messagebox, pubVars, storeVars,
                   httpVars, serverVars, close_pc, speaker_display_window>>

\* running is clear: the callback returns without rescheduling itself.
UpdateTimerStale ==
    /\ UIReady
    /\ pending > 0
    /\ ~running
    /\ pending' = pending - 1
    /\ reset_pending' = IF reset_pending > 0 THEN reset_pending - 1 ELSE 0
    /\ UNCHANGED <<time_left, running, loaded_time, ticks, rosterVars, labelVars,
                   messagebox, pubVars, storeVars, httpVars, serverVars, close_pc, speaker_display_window>>

(***************************************************************************)
(* _start_timer                                                            *)
(***************************************************************************)
\* The fields after the optional _load_speaker_details(0) of lines 608-609.
StartLoads == current_speaker_index = -1 /\ speakers # <<>>
StartIndex == IF StartLoads THEN LoadedIndex(speakers, 0) ELSE current_speaker_index
StartTime  == IF StartLoads THEN LoadedTime(speakers, 0) ELSE time_left
StartLabel == IF StartLoads THEN DisplayTime(StartTime) ELSE timer_label_text
StartWarning == IF StartLoads THEN "" ELSE warning_message_label_text
StartQueue ==
    IF StartLoads
    THEN <<SharedTimerState(StartTime, StartLabel, StartIndex, speakers)>>
    ELSE <<>>

\* The two "Invalid Time" tests of lines 611-616.
InvalidTime(t, index, roster) ==
    IF roster = <<>>
    THEN t = 0
    ELSE /\ t = 0
         /\ index # -1
         /\ roster[index + 1].minutes = 0
         /\ roster[index + 1].seconds = 0

\* Mutant of StartAlreadyRunning: the test of running is absent, so the
\* handler counts down, publishes and registers another callback.
StartAlreadyRunningRestarts ==
    /\ UIReady
    /\ running
    /\ time_left' = Decrement(time_left)
    /\ timer_label_text' = DisplayTime(time_left')
    /\ warning_message_label_text' = WarningText(time_left')
    /\ pending' = pending + 1
    /\ Publish("start", <<SharedTimerState(time_left', timer_label_text',
                                           current_speaker_index, speakers)>>)
    /\ UNCHANGED <<running, reset_pending, loaded_time, ticks, rosterVars, messagebox,
                   storeVars, httpVars, serverVars, close_pc, speaker_display_window>>

StartAlreadyRunning ==
    /\ UIReady
    /\ running
    /\ UNCHANGED vars

\* Mutant of StartNoSpeaker: the test for a missing speaker is absent.
StartNoSpeakerRuns ==
    /\ UIReady
    /\ ~running
    /\ current_speaker_index = -1
    /\ speakers = <<>>
    /\ pending < MaxPending
    /\ running' = TRUE
    /\ pending' = pending + 1
    /\ reset_pending' = reset_pending
    /\ UNCHANGED <<time_left, loaded_time, ticks, rosterVars, labelVars, messagebox,
                   pubVars, storeVars, httpVars, serverVars, close_pc, speaker_display_window>>

StartNoSpeaker ==
    /\ UIReady
    /\ ~running
    /\ current_speaker_index = -1
    /\ speakers = <<>>
    /\ messagebox' = "No Speaker"
    /\ UNCHANGED <<timerVars, rosterVars, labelVars, pubVars, storeVars, httpVars, serverVars, close_pc, speaker_display_window>>

StartInvalidTime ==
    /\ UIReady
    /\ ~running
    /\ ~(current_speaker_index = -1 /\ speakers = <<>>)
    /\ InvalidTime(StartTime, StartIndex, speakers)
    /\ current_speaker_index' = StartIndex
    /\ time_left' = StartTime
    /\ timer_label_text' = StartLabel
    /\ warning_message_label_text' = StartWarning
    /\ loaded_time' = IF StartLoads THEN StartTime ELSE loaded_time
    /\ ticks' = IF StartLoads THEN 0 ELSE ticks
    /\ IF StartLoads THEN Publish("start", StartQueue) ELSE UNCHANGED pubVars
    /\ reset_pending' = IF StartLoads THEN 0 ELSE reset_pending
    /\ messagebox' = "Invalid Time"
    /\ UNCHANGED <<running, pending, speakers, selection, storeVars, httpVars, serverVars, close_pc, speaker_display_window>>

\* running = True, then _update_timer() at once, which counts down, publishes
\* and registers the first deferred callback.
StartRuns ==
    /\ UIReady
    /\ ~running
    /\ ~(current_speaker_index = -1 /\ speakers = <<>>)
    /\ ~InvalidTime(StartTime, StartIndex, speakers)
    /\ current_speaker_index' = StartIndex
    /\ running' = TRUE
    /\ time_left' = Decrement(StartTime)
    /\ timer_label_text' = DisplayTime(time_left')
    /\ warning_message_label_text' = WarningText(time_left')
    /\ loaded_time' = IF StartLoads THEN StartTime ELSE loaded_time
    /\ ticks' = IF StartLoads THEN 1 ELSE ticks + 1
    /\ pending' = pending + 1
    /\ reset_pending' = IF StartLoads THEN 0 ELSE reset_pending
    /\ Publish("start", StartQueue \o
                        <<SharedTimerState(time_left', timer_label_text', StartIndex, speakers)>>)
    /\ UNCHANGED <<speakers, selection, messagebox, storeVars, httpVars, serverVars, close_pc, speaker_display_window>>

(***************************************************************************)
(* _stop_timer and _reset_timer                                            *)
(***************************************************************************)
StopTimer ==
    /\ UIReady
    /\ running' = FALSE
    /\ UNCHANGED <<time_left, pending, reset_pending, loaded_time, ticks, rosterVars, labelVars,
                   messagebox, pubVars, storeVars, httpVars, serverVars, close_pc, speaker_display_window>>

\* Mutant of ResetToAllocation: the seconds of the allocation are left out.
ResetToMinutes ==
    /\ UIReady
    /\ current_speaker_index # -1
    /\ speakers # <<>>
    /\ current_speaker_index < Len(speakers)
    /\ running' = FALSE
    /\ reset_pending' = IF running THEN pending ELSE reset_pending
    /\ time_left' = speakers[current_speaker_index + 1].minutes * 60
    /\ timer_label_text' = DisplayTime(time_left')
    /\ warning_message_label_text' = ""
    /\ loaded_time' = time_left'
    /\ ticks' = 0
    /\ Publish("reset", <<SharedTimerState(time_left', timer_label_text',
                                           current_speaker_index, speakers)>>)
    /\ UNCHANGED <<pending, rosterVars, messagebox, storeVars, httpVars, serverVars, close_pc, speaker_display_window>>

ResetToAllocation ==
    /\ UIReady
    /\ current_speaker_index # -1
    /\ speakers # <<>>
    /\ current_speaker_index < Len(speakers)
    /\ running' = FALSE
    /\ reset_pending' = IF running THEN pending ELSE reset_pending
    /\ time_left' = Allocation(speakers[current_speaker_index + 1])
    /\ timer_label_text' = DisplayTime(time_left')
    /\ warning_message_label_text' = ""
    /\ loaded_time' = time_left'
    /\ ticks' = 0
    /\ Publish("reset", <<SharedTimerState(time_left', timer_label_text',
                                           current_speaker_index, speakers)>>)
    /\ UNCHANGED <<pending, rosterVars, messagebox, storeVars, httpVars, serverVars, close_pc, speaker_display_window>>

ResetNoSpeaker ==
    /\ UIReady
    /\ ~(/\ current_speaker_index # -1
         /\ speakers # <<>>
         /\ current_speaker_index < Len(speakers))
    /\ running' = FALSE
    /\ reset_pending' = 0
    /\ current_speaker_index' = -1
    /\ time_left' = 0
    /\ timer_label_text' = DisplayTime(time_left')
    /\ warning_message_label_text' = ""
    /\ loaded_time' = 0
    /\ ticks' = 0
    /\ Publish("reset", <<SharedTimerState(time_left', timer_label_text', -1, speakers)>>)
    /\ UNCHANGED <<pending, speakers, selection, messagebox, storeVars, httpVars, serverVars, close_pc, speaker_display_window>>

(***************************************************************************)
(* _load_speaker_details(index) as the roster handlers call it: index is   *)
(* in the roster, running is left as it is.                                *)
(***************************************************************************)
LoadSpeakerDetails(handler, roster, index) ==
    /\ current_speaker_index' = LoadedIndex(roster, index)
    /\ time_left' = LoadedTime(roster, index)
    /\ timer_label_text' = DisplayTime(time_left')
    /\ warning_message_label_text' = ""
    /\ loaded_time' = time_left'
    /\ ticks' = 0
    /\ reset_pending' = 0
    /\ Publish(handler, <<SharedTimerState(time_left', timer_label_text',
                                           current_speaker_index', roster)>>)

(***************************************************************************)
(* _add_update_speaker                                                     *)
(***************************************************************************)
AddUpdateRejected(name, minutes, seconds) ==
    /\ UIReady
    /\ ~ValidEntry(name, minutes, seconds)
    /\ messagebox' = IF name = "" THEN "Input Error" ELSE "Invalid Time"
    /\ UNCHANGED <<timerVars, rosterVars, labelVars, pubVars, storeVars, httpVars, serverVars, close_pc, speaker_display_window>>

\* Mutant of UpdateActive: the entry is replaced and the speaker is not reloaded.
UpdateActiveNoReload(name, title, minutes, seconds) ==
    /\ UIReady
    /\ ValidEntry(name, minutes, seconds)
    /\ selection # -1
    /\ current_speaker_index = selection
    /\ speakers' = [speakers EXCEPT ![selection + 1] = Speaker(name, title, minutes, seconds)]
    /\ selection' = -1
    /\ UNCHANGED <<timerVars, current_speaker_index, labelVars, messagebox,
                   pubVars, storeVars, httpVars, serverVars, close_pc, speaker_display_window>>

\* A roster entry is selected and it is the active speaker: replace and reload.
UpdateActive(name, title, minutes, seconds) ==
    /\ UIReady
    /\ ValidEntry(name, minutes, seconds)
    /\ selection # -1
    /\ current_speaker_index = selection
    /\ speakers' = [speakers EXCEPT ![selection + 1] = Speaker(name, title, minutes, seconds)]
    /\ LoadSpeakerDetails("update", speakers', selection)
    /\ selection' = -1
    /\ UNCHANGED <<running, pending, messagebox, storeVars, httpVars, serverVars, close_pc, speaker_display_window>>

\* A roster entry is selected and it is not the active speaker: replace only.
UpdateOther(name, title, minutes, seconds) ==
    /\ UIReady
    /\ ValidEntry(name, minutes, seconds)
    /\ selection # -1
    /\ current_speaker_index # selection
    /\ speakers' = [speakers EXCEPT ![selection + 1] = Speaker(name, title, minutes, seconds)]
    /\ selection' = -1
    /\ UNCHANGED <<timerVars, current_speaker_index, labelVars, messagebox,
                   pubVars, storeVars, httpVars, serverVars, close_pc, speaker_display_window>>

\* Nothing is selected and no speaker is active: append, then load index 0.
AddAndLoad(name, title, minutes, seconds) ==
    /\ UIReady
    /\ ValidEntry(name, minutes, seconds)
    /\ selection = -1
    /\ current_speaker_index = -1
    /\ speakers' = Append(speakers, Speaker(name, title, minutes, seconds))
    /\ LoadSpeakerDetails("add", speakers', 0)
    /\ UNCHANGED <<running, pending, selection, messagebox, storeVars, httpVars, serverVars, close_pc, speaker_display_window>>

\* Nothing is selected and a speaker is active: append only.
AddOnly(name, title, minutes, seconds) ==
    /\ UIReady
    /\ ValidEntry(name, minutes, seconds)
    /\ selection = -1
    /\ current_speaker_index # -1
    /\ speakers' = Append(speakers, Speaker(name, title, minutes, seconds))
    /\ UNCHANGED <<timerVars, current_speaker_index, selection, labelVars,
                   messagebox, pubVars, storeVars, httpVars, serverVars, close_pc, speaker_display_window>>

(***************************************************************************)
(* _remove_speaker                                                         *)
(***************************************************************************)
RemoveNoSelection ==
    /\ UIReady
    /\ selection = -1
    /\ messagebox' = "No Selection"
    /\ UNCHANGED <<timerVars, rosterVars, labelVars, pubVars, storeVars, httpVars, serverVars, close_pc, speaker_display_window>>

\* askyesno answered No.
RemoveDeclined ==
    /\ UIReady
    /\ selection # -1
    /\ UNCHANGED vars

\* Mutant of RemoveActive: _reset_timer is left out, the time stays as it is.
RemoveActiveKeepsTime ==
    /\ UIReady
    /\ selection # -1
    /\ current_speaker_index = selection
    /\ speakers' = DeleteAt(speakers, selection)
    /\ selection' = -1
    /\ current_speaker_index' = -1
    /\ running' = FALSE
    /\ reset_pending' = 0
    /\ Publish("remove", <<SharedTimerState(time_left, timer_label_text, -1, speakers')>>)
    /\ UNCHANGED <<time_left, pending, loaded_time, ticks, labelVars, messagebox, storeVars,
                   httpVars, serverVars, close_pc, speaker_display_window>>

\* Mutant of RemoveActive: the timer is not stopped.
RemoveActiveKeepsRunning ==
    /\ UIReady
    /\ selection # -1
    /\ current_speaker_index = selection
    /\ speakers' = DeleteAt(speakers, selection)
    /\ selection' = -1
    /\ current_speaker_index' = -1
    /\ reset_pending' = 0
    /\ time_left' = 0
    /\ timer_label_text' = DisplayTime(time_left')
    /\ warning_message_label_text' = ""
    /\ loaded_time' = 0
    /\ ticks' = 0
    /\ Publish("remove", <<SharedTimerState(time_left', timer_label_text', -1, speakers')>>)
    /\ UNCHANGED <<running, pending, messagebox, storeVars, httpVars, serverVars, close_pc, speaker_display_window>>

\* The removed entry is the active speaker: index -1, then _reset_timer.
RemoveActive ==
    /\ UIReady
    /\ selection # -1
    /\ current_speaker_index = selection
    /\ speakers' = DeleteAt(speakers, selection)
    /\ selection' = -1
    /\ current_speaker_index' = -1
    /\ running' = FALSE
    /\ reset_pending' = 0
    /\ time_left' = 0
    /\ timer_label_text' = DisplayTime(time_left')
    /\ warning_message_label_text' = ""
    /\ loaded_time' = 0
    /\ ticks' = 0
    /\ Publish("remove", <<SharedTimerState(time_left', timer_label_text', -1, speakers')>>)
    /\ UNCHANGED <<pending, messagebox, storeVars, httpVars, serverVars, close_pc, speaker_display_window>>

\* Mutant of RemoveOther: the index of the active speaker is not moved down.
RemoveOtherKeepsIndex ==
    /\ UIReady
    /\ selection # -1
    /\ current_speaker_index # selection
    /\ speakers' = DeleteAt(speakers, selection)
    /\ selection' = -1
    /\ UNCHANGED <<timerVars, current_speaker_index, labelVars, messagebox, pubVars,
                   storeVars, httpVars, serverVars, close_pc, speaker_display_window>>

RemoveOther ==
    /\ UIReady
    /\ selection # -1
    /\ current_speaker_index # selection
    /\ speakers' = DeleteAt(speakers, selection)
    /\ selection' = -1
    /\ current_speaker_index' =
          IF current_speaker_index > selection
          THEN current_speaker_index - 1
          ELSE current_speaker_index
    /\ UNCHANGED <<timerVars, labelVars, messagebox, pubVars, storeVars, httpVars, serverVars, close_pc, speaker_display_window>>

(***************************************************************************)
(* _on_roster_select: the operator clicks entry i of the listbox.          *)
(***************************************************************************)
\* Stopped and another speaker: load it; _update_roster_display then rebuilds
\* the listbox, which drops the selection.
SelectLoads(i) ==
    /\ UIReady
    /\ ~running
    /\ current_speaker_index # i
    /\ LoadSpeakerDetails("select", speakers, i)
    /\ selection' = -1
    /\ UNCHANGED <<running, pending, speakers, messagebox, storeVars, httpVars, serverVars, close_pc, speaker_display_window>>

SelectOnly(i) ==
    /\ UIReady
    /\ ~(~running /\ current_speaker_index # i)
    /\ selection' = i
    /\ UNCHANGED <<timerVars, speakers, current_speaker_index, labelVars,
                   messagebox, pubVars, storeVars, httpVars, serverVars, close_pc, speaker_display_window>>

(***************************************************************************)
(* _next_speaker                                                           *)
(***************************************************************************)
NextSpeakerEmpty ==
    /\ UIReady
    /\ speakers = <<>>
    /\ messagebox' = "Roster Empty"
    /\ UNCHANGED <<timerVars, rosterVars, labelVars, pubVars, storeVars, httpVars, serverVars, close_pc, speaker_display_window>>

\* Mutant of NextSpeaker: the index is not wrapped at the end of the roster.
NextSpeakerNoWrap ==
    /\ UIReady
    /\ speakers # <<>>
    /\ running' = FALSE
    /\ LoadSpeakerDetails("next", speakers, current_speaker_index + 1)
    /\ selection' = -1
    /\ UNCHANGED <<pending, speakers, messagebox, storeVars, httpVars, serverVars, close_pc, speaker_display_window>>

NextSpeaker ==
    /\ UIReady
    /\ speakers # <<>>
    /\ running' = FALSE
    /\ LoadSpeakerDetails("next", speakers,
                          IF current_speaker_index + 1 >= Len(speakers)
                          THEN 0
                          ELSE current_speaker_index + 1)
    /\ selection' = -1
    /\ UNCHANGED <<pending, speakers, messagebox, storeVars, httpVars, serverVars, close_pc, speaker_display_window>>

\* The operator closes the modal dialog; the handler that raised it returns.
DismissDialog ==
    /\ messagebox # "none"
    /\ ui_pc = "idle"
    /\ close_pc = "none"
    /\ messagebox' = "none"
    /\ UNCHANGED <<timerVars, rosterVars, labelVars, pubVars, storeVars, httpVars, serverVars, close_pc, speaker_display_window>>

(***************************************************************************)
(* _update_shared_timer_state, lines 532-537: the critical section.        *)
(***************************************************************************)
\* with timer_state_lock: (entry; blocks while the HTTP thread holds the lock)
PubAcquire ==
    /\ pub_queue # <<>>
    /\ pub_field = 0
    /\ timer_state_lock = "free"
    /\ timer_state_lock' = "ui"
    /\ pub_field' = 1
    /\ UNCHANGED <<timerVars, rosterVars, labelVars, messagebox, ui_pc, pub_queue,
                   timer_state, published, httpVars, serverVars, close_pc, speaker_display_window>>

\* timer_state[field] = value, one assignment at a time
PubWrite ==
    /\ pub_field \in 1..5
    /\ timer_state' = [timer_state EXCEPT
                          ![FieldOrder[pub_field]] = Head(pub_queue)[FieldOrder[pub_field]]]
    /\ pub_field' = pub_field + 1
    /\ UNCHANGED <<timerVars, rosterVars, labelVars, messagebox, ui_pc, pub_queue,
                   timer_state_lock, published, httpVars, serverVars, close_pc, speaker_display_window>>

\* Mutant of PubRelease: the lock is not released when the five fields are written.
PubReleaseKeepsLock ==
    /\ pub_field = 6
    /\ published' = Head(pub_queue)
    /\ pub_field' = 0
    /\ pub_queue' = Tail(pub_queue)
    /\ ui_pc' = IF Tail(pub_queue) = <<>> THEN "idle" ELSE ui_pc
    /\ UNCHANGED <<timerVars, rosterVars, labelVars, messagebox, timer_state,
                   timer_state_lock, httpVars, serverVars, close_pc, speaker_display_window>>

\* self.speaker_display_window and self.speaker_display_window.winfo_exists()
WindowExists == "none" \notin DOMAIN speaker_display_window

\* the with block is left: the lock is released; with no speaker display the
\* call returns and the handler goes on
PubRelease ==
    /\ pub_field = 6
    /\ timer_state_lock' = "free"
    /\ published' = Head(pub_queue)
    /\ IF WindowExists
       THEN /\ pub_field' = 7
            /\ UNCHANGED <<pub_queue, ui_pc>>
       ELSE /\ pub_field' = 0
            /\ pub_queue' = Tail(pub_queue)
            /\ ui_pc' = IF Tail(pub_queue) = <<>> THEN "idle" ELSE ui_pc
    /\ UNCHANGED <<timerVars, rosterVars, labelVars, messagebox, timer_state, httpVars,
                   serverVars, close_pc, speaker_display_window>>

\* speaker_display_window.update_display(timer_state[...], ...), lines 540-547
PubDisplay ==
    /\ pub_field = 7
    /\ speaker_display_window' = UpdateDisplay(speaker_display_window, timer_state)
    /\ pub_field' = 0
    /\ pub_queue' = Tail(pub_queue)
    /\ ui_pc' = IF Tail(pub_queue) = <<>> THEN "idle" ELSE ui_pc
    /\ UNCHANGED <<timerVars, rosterVars, labelVars, messagebox, storeVars, httpVars,
                   serverVars, close_pc>>

(***************************************************************************)
(* The speaker display: _open_speaker_display, _on_speaker_display_close   *)
(* and the blink callback.                                                 *)
(***************************************************************************)
\* No window yet: create it and publish, which shows the snapshot in it.
OpenSpeakerDisplay ==
    /\ UIReady
    /\ ~WindowExists
    /\ speaker_display_window' = NewWindow
    /\ Publish("open", <<SharedTimerState(time_left, timer_label_text,
                                          current_speaker_index, speakers)>>)
    /\ UNCHANGED <<timerVars, rosterVars, labelVars, messagebox, storeVars, httpVars,
                   serverVars, close_pc>>

\* The window exists: lift() only.
OpenSpeakerDisplayExists ==
    /\ UIReady
    /\ WindowExists
    /\ UNCHANGED vars

\* The window is destroyed, and its callbacks with it.
CloseSpeakerDisplay ==
    /\ UIReady
    /\ WindowExists
    /\ speaker_display_window' = NoWindow
    /\ UNCHANGED <<timerVars, rosterVars, labelVars, messagebox, pubVars, storeVars,
                   httpVars, serverVars, close_pc>>

\* A _toggle_blink_color callback registered with after(500, ...) fires.
BlinkCallback ==
    /\ UIReady
    /\ WindowExists
    /\ speaker_display_window.blink_jobs > 0
    /\ speaker_display_window' = ToggleBlinkColor(speaker_display_window)
    /\ UNCHANGED <<timerVars, rosterVars, labelVars, messagebox, pubVars, storeVars,
                   httpVars, serverVars, close_pc>>

(***************************************************************************)
(* The UI thread alone: every handler, with the entries the operator can   *)
(* type drawn from the input sets.                                         *)
(***************************************************************************)
Next ==
    \/ ticks < MaxTicks /\ UpdateTimerRunning
    \/ UpdateTimerStale
    \/ StartAlreadyRunning
    \/ StartNoSpeaker
    \/ StartInvalidTime
    \/ ticks < MaxTicks /\ pending < MaxPending /\ StartRuns
    \/ StopTimer
    \/ ResetToAllocation
    \/ ResetNoSpeaker
    \/ \E e \in BadInputs : AddUpdateRejected(e[1], e[2], e[3])
    \/ \E n \in NameInputs, s \in TitleInputs, t \in TimeInputs : UpdateActive(n, s, t[1], t[2])
    \/ \E n \in NameInputs, s \in TitleInputs, t \in TimeInputs : UpdateOther(n, s, t[1], t[2])
    \/ Len(speakers) < MaxSpeakers /\
         \E n \in NameInputs, s \in TitleInputs, t \in TimeInputs : AddAndLoad(n, s, t[1], t[2])
    \/ Len(speakers) < MaxSpeakers /\
         \E n \in NameInputs, s \in TitleInputs, t \in TimeInputs : AddOnly(n, s, t[1], t[2])
    \/ RemoveNoSelection
    \/ RemoveDeclined
    \/ RemoveActive
    \/ RemoveOther
    \/ \E i \in 0..(Len(speakers) - 1) : SelectLoads(i)
    \/ \E i \in 0..(Len(speakers) - 1) : SelectOnly(i)
    \/ NextSpeakerEmpty
    \/ NextSpeaker
    \/ DismissDialog
    \/ PubAcquire
    \/ PubWrite
    \/ PubRelease

Spec == Init /\ [][Next]_vars

(***************************************************************************)
(* HttpServerThread.run on the HTTP thread, started by                     *)
(* ChurchTimerApp.__init__.  The thread is a daemon: it ends with the      *)
(* process, which ends when the main window is destroyed.                  *)
(* HttpServerThread.running is written and never read; it is left out.     *)
(***************************************************************************)
uiVars == <<timerVars, rosterVars, labelVars, messagebox, pubVars, speaker_display_window>>

ProcessAlive == close_pc # "destroyed"

\* threading.Thread.is_alive()
IsAlive == server_pc \notin {"dead", "exited"}

\* self.httpd = HTTPServer(server_address, TimerRequestHandler): the port is
\* bound and listened on, then the attribute is assigned.
ServerBind ==
    /\ ProcessAlive
    /\ server_pc = "start"
    /\ httpd' = "open"
    /\ server_pc' = "bound"
    /\ UNCHANGED <<uiVars, storeVars, httpVars, shutdown_request, is_shut_down, close_pc>>

\* Mutant of ServerBindFails: the error of the bind reaches the UI thread,
\* whose event loop stops dispatching.
ServerBindFailsStopsUI ==
    /\ ProcessAlive
    /\ server_pc = "start"
    /\ server_pc' = "dead"
    /\ messagebox' = "OSError"
    /\ UNCHANGED <<timerVars, rosterVars, labelVars, pubVars, storeVars, httpVars, httpd,
                   shutdown_request, is_shut_down, close_pc, speaker_display_window>>

\* The port is in use: HTTPServer raises OSError outside the try block, run
\* ends with the exception and self.httpd stays None.
ServerBindFails ==
    /\ ProcessAlive
    /\ server_pc = "start"
    /\ server_pc' = "dead"
    /\ UNCHANGED <<uiVars, storeVars, httpVars, httpd, shutdown_request, is_shut_down,
                   close_pc>>

\* self.httpd.serve_forever() is entered: it clears the event and loops.
ServeForever ==
    /\ ProcessAlive
    /\ server_pc = "bound"
    /\ is_shut_down' = FALSE
    /\ server_pc' = "serving"
    /\ UNCHANGED <<uiVars, storeVars, httpVars, httpd, shutdown_request, close_pc>>

\* The loop of serve_forever finds the shutdown flag between two requests,
\* leaves, resets the flag and sets the event; run returns.
ServeExit ==
    /\ ProcessAlive
    /\ server_pc = "serving"
    /\ http_pc = "idle"
    /\ shutdown_request
    /\ shutdown_request' = FALSE
    /\ is_shut_down' = TRUE
    /\ server_pc' = "exited"
    /\ UNCHANGED <<uiVars, storeVars, httpVars, httpd, close_pc>>

(***************************************************************************)
(* TimerRequestHandler.do_GET on the HTTP thread.  HTTPServer handles one  *)
(* request at a time.                                                      *)
(***************************************************************************)
\* A client connects and serve_forever hands the connection to a handler,
\* which waits for the request line.
HttpAccept ==
    /\ ProcessAlive
    /\ server_pc = "serving"
    /\ ~shutdown_request
    /\ http_pc = "idle"
    /\ http_pc' = "accepted"
    /\ UNCHANGED <<uiVars, storeVars, response, path, status, wfile, serverVars, close_pc>>

\* self.path == '/timer_state': status line and headers are sent
HttpGetTimerState(p) ==
    /\ ProcessAlive
    /\ http_pc = "accepted"
    /\ p = "/timer_state"
    /\ path' = p
    /\ status' = 200
    /\ http_pc' = "headers"
    /\ UNCHANGED <<uiVars, storeVars, response, wfile, serverVars, close_pc>>

\* Mutant of HttpGetOther: every path is answered like /timer_state.
HttpGetAnyPath(p) ==
    /\ ProcessAlive
    /\ http_pc = "accepted"
    /\ p # "/timer_state"
    /\ path' = p
    /\ status' = 200
    /\ http_pc' = "headers"
    /\ UNCHANGED <<uiVars, storeVars, response, wfile, serverVars, close_pc>>

\* any other path: send_response(404)
HttpGetOther(p) ==
    /\ ProcessAlive
    /\ http_pc = "accepted"
    /\ p # "/timer_state"
    /\ path' = p
    /\ status' = 404
    /\ http_pc' = "notfound"
    /\ UNCHANGED <<uiVars, storeVars, response, wfile, serverVars, close_pc>>

\* Mutant of HttpAcquire: the dictionary is read without waiting for the lock.
HttpAcquireUnlocked ==
    /\ ProcessAlive
    /\ http_pc = "headers"
    /\ http_pc' = "locked"
    /\ UNCHANGED <<uiVars, storeVars, response, path, status, wfile, serverVars, close_pc>>

\* with timer_state_lock: (entry; blocks while the UI thread holds the lock)
HttpAcquire ==
    /\ ProcessAlive
    /\ http_pc = "headers"
    /\ timer_state_lock = "free"
    /\ timer_state_lock' = "http"
    /\ http_pc' = "locked"
    /\ UNCHANGED <<uiVars, timer_state, published, response, path, status, wfile, serverVars,
                   close_pc>>

\* Mutant of HttpDumps: the handler also puts the defaults back into timer_state.
HttpDumpsResetsStore ==
    /\ ProcessAlive
    /\ http_pc = "locked"
    /\ response' = timer_state
    /\ timer_state' = DefaultTimerState
    /\ timer_state_lock' = "free"
    /\ http_pc' = "write"
    /\ UNCHANGED <<uiVars, published, path, status, wfile, serverVars, close_pc>>

\* Mutant of HttpDumps: the response is written inside the with block, so the
\* lock is still held when the handler goes on to wfile.write.
HttpDumpsKeepsLock ==
    /\ ProcessAlive
    /\ http_pc = "locked"
    /\ response' = timer_state
    /\ http_pc' = "write"
    /\ UNCHANGED <<uiVars, storeVars, path, status, wfile, serverVars, close_pc>>

\* response_data = json.dumps(timer_state), the JSON object of the dictionary's
\* keys and values, and the with block is left
HttpDumps ==
    /\ ProcessAlive
    /\ http_pc = "locked"
    /\ response' = timer_state
    /\ timer_state_lock' = "free"
    /\ http_pc' = "write"
    /\ UNCHANGED <<uiVars, timer_state, published, path, status, wfile, serverVars, close_pc>>

\* self.wfile.write(response_data.encode('utf-8'))
HttpWrite ==
    /\ ProcessAlive
    /\ http_pc = "write"
    /\ wfile' = response
    /\ http_pc' = "done"
    /\ UNCHANGED <<uiVars, storeVars, response, path, status, serverVars, close_pc>>

\* self.end_headers(); self.wfile.write(b'404 Not Found')
HttpNotFound ==
    /\ ProcessAlive
    /\ http_pc = "notfound"
    /\ wfile' = NotFoundBody
    /\ http_pc' = "done"
    /\ UNCHANGED <<uiVars, storeVars, response, path, status, serverVars, close_pc>>

\* do_GET returns, the connection is closed and the loop of serve_forever goes on
HttpReturn ==
    /\ ProcessAlive
    /\ http_pc = "done"
    /\ http_pc' = "idle"
    /\ response' = NoResponse
    /\ path' = ""
    /\ status' = 0
    /\ wfile' = NoResponse
    /\ UNCHANGED <<uiVars, storeVars, serverVars, close_pc>>

(***************************************************************************)
(* ChurchTimerApp._on_app_close with HttpServerThread.stop, on the UI      *)
(* thread.                                                                 *)
(***************************************************************************)
\* WM_DELETE_WINDOW: the test of is_alive()
AppClose ==
    /\ UIReady
    /\ close_pc' = IF IsAlive THEN "stop" ELSE "destroy"
    /\ UNCHANGED <<uiVars, storeVars, httpVars, serverVars>>

\* stop(): if self.httpd: shutdown() raises the flag and waits for the event;
\* else stop returns at once.
StopServer ==
    /\ close_pc = "stop"
    /\ IF httpd # "none"
       THEN shutdown_request' = TRUE /\ close_pc' = "shutdown"
       ELSE shutdown_request' = shutdown_request /\ close_pc' = "join"
    /\ UNCHANGED <<uiVars, storeVars, httpVars, server_pc, httpd, is_shut_down>>

\* shutdown() returns when serve_forever has set the event; server_close()
\* closes the listening socket and stop returns.
ShutdownReturns ==
    /\ close_pc = "shutdown"
    /\ is_shut_down
    /\ httpd' = "closed"
    /\ close_pc' = "join"
    /\ UNCHANGED <<uiVars, storeVars, httpVars, server_pc, shutdown_request, is_shut_down>>

\* join(timeout=2) returns: the thread has ended or two seconds have passed.
JoinReturns ==
    /\ close_pc = "join"
    /\ close_pc' = "destroy"
    /\ UNCHANGED <<uiVars, storeVars, httpVars, serverVars>>

\* self.master.destroy(): the event loop ends and with it the process.
DestroyWindow ==
    /\ close_pc = "destroy"
    /\ close_pc' = "destroyed"
    /\ UNCHANGED <<uiVars, storeVars, httpVars, serverVars>>

(***************************************************************************)
(* The polled run: the UI thread counts down for a roster of speakers with *)
(* short allocations while the HTTP thread starts and serves requests.     *)
(***************************************************************************)
NextPoll ==
    \/ Len(speakers) < MaxSpeakers /\
         \E n \in NameInputs, s \in TitleInputs, t \in PollTimeInputs : AddAndLoad(n, s, t[1], t[2])
    \/ Len(speakers) < MaxSpeakers /\
         \E n \in NameInputs, s \in TitleInputs, t \in PollTimeInputs : AddOnly(n, s, t[1], t[2])
    \/ ticks < MaxTicks /\ pending < MaxPending /\ StartRuns
    \/ ticks < MaxTicks /\ UpdateTimerRunning
    \/ UpdateTimerStale
    \/ StopTimer
    \/ ResetToAllocation
    \/ NextSpeaker
    \/ \E i \in 0..(Len(speakers) - 1) : SelectOnly(i)
    \/ RemoveActive
    \/ PubAcquire
    \/ PubWrite
    \/ PubRelease
    \/ ServerBind
    \/ ServeForever
    \/ HttpAccept
    \/ \E p \in Paths : HttpGetTimerState(p)
    \/ \E p \in Paths : HttpGetOther(p)
    \/ HttpAcquire
    \/ HttpDumps
    \/ HttpWrite
    \/ HttpNotFound
    \/ HttpReturn

SpecPoll == Init /\ [][NextPoll]_vars

(***************************************************************************)
(* The long countdown: one speaker, started once and left running, with    *)
(* allocations up to 100 minutes and down to 65 seconds past zero.         *)
(***************************************************************************)
NextCountdown ==
    \/ speakers = <<>> /\
         \E s \in TitleInputs, t \in LongTimeInputs : AddAndLoad("A", s, t[1], t[2])
    \/ ticks < LongTicks /\ pending < 1 /\ StartRuns
    \/ ticks < LongTicks /\ UpdateTimerRunning
    \/ PubAcquire
    \/ PubWrite
    \/ PubRelease

SpecCountdown == Init /\ [][NextCountdown]_vars

(***************************************************************************)
(* Start-up and close: one speaker counts down while the HTTP thread binds *)
(* or fails to bind, serves, and the operator closes the main window.      *)
(***************************************************************************)
NextClose ==
    \/ speakers = <<>> /\
         \E s \in TitleInputs, t \in PollTimeInputs : AddAndLoad("A", s, t[1], t[2])
    \/ ticks < MaxTicks /\ pending < 1 /\ StartRuns
    \/ ticks < MaxTicks /\ UpdateTimerRunning
    \/ UpdateTimerStale
    \/ StopTimer
    \/ ResetToAllocation
    \/ PubAcquire
    \/ PubWrite
    \/ PubRelease
    \/ ServerBind
    \/ ServerBindFails
    \/ ServeForever
    \/ ServeExit
    \/ HttpAccept
    \/ \E p \in Paths : HttpGetTimerState(p)
    \/ \E p \in Paths : HttpGetOther(p)
    \/ HttpAcquire
    \/ HttpDumps
    \/ HttpWrite
    \/ HttpNotFound
    \/ HttpReturn
    \/ AppClose
    \/ StopServer
    \/ ShutdownReturns
    \/ JoinReturns
    \/ DestroyWindow

\* The steps each thread takes by itself once it can.  When a client connects
\* and when it sends its request line is the client's choice.
CloseSteps == StopServer \/ ShutdownReturns \/ JoinReturns \/ DestroyWindow
PublishSteps == PubAcquire \/ PubWrite \/ PubRelease
ServerSteps ==
    \/ ServerBind
    \/ ServerBindFails
    \/ ServeForever
    \/ ServeExit
    \/ HttpAcquire
    \/ HttpDumps
    \/ HttpWrite
    \/ HttpNotFound
    \/ HttpReturn

SpecClose ==
    /\ Init
    /\ [][NextClose]_vars
    /\ WF_vars(CloseSteps)
    /\ WF_vars(PublishSteps)
    /\ WF_vars(ServerSteps)
    /\ SF_vars(PubAcquire)
    /\ SF_vars(HttpAcquire)

(***************************************************************************)
(* The speaker display: one speaker counts down with the display window    *)
(* opened and closed and its blink callback firing, while the HTTP thread  *)
(* serves requests.                                                        *)
(***************************************************************************)
DisplayTimeInputs == {<<0, 1>>, <<1, 1>>}

NextDisplay ==
    \/ speakers = <<>> /\
         \E s \in TitleInputs, t \in DisplayTimeInputs : AddAndLoad("A", s, t[1], t[2])
    \/ ticks < MaxTicks /\ pending < 1 /\ StartRuns
    \/ ticks < MaxTicks /\ UpdateTimerRunning
    \/ UpdateTimerStale
    \/ StopTimer
    \/ ResetToAllocation
    \/ OpenSpeakerDisplay
    \/ OpenSpeakerDisplayExists
    \/ CloseSpeakerDisplay
    \/ BlinkCallback
    \/ PubAcquire
    \/ PubWrite
    \/ PubRelease
    \/ PubDisplay
    \/ ServerBind
    \/ ServeForever
    \/ HttpAccept
    \/ \E p \in Paths : HttpGetTimerState(p)
    \/ \E p \in Paths : HttpGetOther(p)
    \/ HttpAcquire
    \/ HttpDumps
    \/ HttpWrite
    \/ HttpNotFound
    \/ HttpReturn

SpecDisplay == Init /\ [][NextDisplay]_vars

(***************************************************************************)
(* Reading a time text back, for the properties of _display_time.          *)
(***************************************************************************)
DigitValue(c) == CHOOSE d \in 0..9 : Digits[d + 1] = c
IsDigits(text) == \A i \in 1..Len(text) : \E d \in 0..9 : Digits[d + 1] = text[i]

RECURSIVE DigitsValue(_)
DigitsValue(text) ==
    IF text = <<>> THEN 0
    ELSE DigitsValue(SubSeq(text, 1, Len(text) - 1)) * 10 + DigitValue(text[Len(text)])

\* text is t written as [-]M..M:SS: a "-" exactly when t < 0, then the minutes
\* and the two-digit seconds of abs(t).  The minutes field is two digits wide;
\* with threeFrom100 it is three digits wide from 100 minutes on.
TimeTextOf(t, text, threeFrom100) ==
    LET a      == IF t < 0 THEN -t ELSE t
        signed == text # <<>> /\ Head(text) = "-"
        body   == IF signed THEN Tail(text) ELSE text
        n      == Len(body)
    IN  /\ signed = (t < 0)
        /\ n >= 4
        /\ body[n - 2] = ":"
        /\ IsDigits(SubSeq(body, 1, n - 3))
        /\ IsDigits(SubSeq(body, n - 1, n))
        /\ DigitsValue(SubSeq(body, 1, n - 3)) = a \div 60
        /\ DigitsValue(SubSeq(body, n - 1, n)) = a % 60
        /\ n - 3 = IF threeFrom100 /\ a \div 60 >= 100 THEN 3 ELSE 2

\* The allocation of the active speaker, written out.
ActiveAllocation ==
    speakers[current_speaker_index + 1].minutes * 60
        + speakers[current_speaker_index + 1].seconds

(***************************************************************************)
(* C1.  Every snapshot published while a speaker is loaded has             *)
(* is_warning = (0 <= time_left <= warning_threshold) and                  *)
(* is_past_zero = (time_left < 0) for the time_left it was published for,  *)
(* time_left = 0 included, and never both flags.  Read when the handler's  *)
(* publication is complete.  The program publishes is_warning = False at   *)
(* time_left = 0.                                                          *)
(***************************************************************************)
C1_FlagsClassifyTimeLeft ==
    (ui_pc = "idle" /\ current_speaker_index # -1) =>
        /\ timer_state.is_warning = (0 <= time_left /\ time_left <= WarningThreshold)
        /\ timer_state.is_past_zero = (time_left < 0)
        /\ ~(timer_state.is_warning /\ timer_state.is_past_zero)

(***************************************************************************)
(* C2.  Every execution of _update_timer while running takes exactly 1     *)
(* from time_left, below zero as well, and none changes it while not       *)
(* running: after N such executions since time_left was set to T by a load *)
(* or a reset, time_left = T - N.                                          *)
(***************************************************************************)
C2_TickDecrementsByOne == time_left = loaded_time - ticks

C2_Witness == running /\ ticks >= 2 /\ time_left < 0 /\ loaded_time > 0

(***************************************************************************)
(* C3.  The response of a read of timer_state on the HTTP thread is, in    *)
(* all five fields, the snapshot of the last publication that ran to       *)
(* completion: no interleaving with the UI thread's assignments gives a    *)
(* mixed one.                                                              *)
(***************************************************************************)
C3_ReadIsOnePublication ==
    [][(http_pc = "locked" /\ http_pc' = "write") => response' = published]_vars

\* A request is in flight while the dictionary is mixed: the new time text is
\* negative, is_past_zero is still the old False.
C3_Witness ==
    /\ http_pc = "headers"
    /\ timer_state_lock = "ui"
    /\ Head(timer_state.time_text) = "-"
    /\ ~timer_state.is_past_zero

(***************************************************************************)
(* C4.  _stop_timer does not change time_left, and while running is clear  *)
(* a firing _update_timer callback neither changes time_left nor registers *)
(* another callback nor sets running.                                      *)
(***************************************************************************)
\* A step in which a deferred callback fires: it is consumed, or it publishes.
CallbackFires == ui_pc = "idle" /\ (pending' < pending \/ ui_pc' = "tick")

C4_StopFreezesTimeLeft ==
    [][/\ StopTimer => (time_left' = time_left /\ pending' = pending /\ ~running')
       /\ (~running /\ CallbackFires) =>
              (time_left' = time_left /\ pending' = pending - 1 /\ ~running')]_vars

\* Started, stopped, and every callback left over has fired since.
C4_Witness == ~running /\ pending = 0 /\ ticks > 0 /\ time_left = loaded_time - ticks

(***************************************************************************)
(* C5.  A successful _start_timer sets running and registers the first     *)
(* callback without counting down: time_left after it is the time_left     *)
(* before it (the allocation, when it loaded the first speaker).  The      *)
(* program calls _update_timer at once and counts down in _start_timer.    *)
(***************************************************************************)
C5_StartDoesNotDecrement ==
    [][(~running /\ running') => (time_left' = StartTime /\ pending' = pending + 1)]_vars

(***************************************************************************)
(* C6.  A handler that loads a speaker (next speaker, roster selection,    *)
(* add or update of the active speaker) leaves running clear and time_left *)
(* at that speaker's minutes * 60 + seconds.  The update of the active     *)
(* speaker leaves running set.                                             *)
(***************************************************************************)
C6_LoadLeavesStopped ==
    ui_pc \in {"next", "select", "update", "add"} =>
        /\ ~running
        /\ current_speaker_index # -1
        /\ time_left = ActiveAllocation

(***************************************************************************)
(* C7.  _reset_timer leaves running clear and time_left at the active      *)
(* speaker's minutes * 60 + seconds, or at 0 with no speaker loaded, and   *)
(* writes the snapshot of that value to timer_state.                       *)
(***************************************************************************)
C7_ResetRestoresAllocation ==
    ui_pc = "reset" =>
        LET restored == IF current_speaker_index # -1 THEN ActiveAllocation ELSE 0
        IN  /\ ~running
            /\ time_left = restored
            /\ pub_field = 6 =>
                  /\ timer_state.time_text = DisplayTime(restored)
                  /\ ~timer_state.is_past_zero
                  /\ timer_state.speaker_name =
                        IF current_speaker_index # -1
                        THEN speakers[current_speaker_index + 1].name
                        ELSE "N/A"

\* The reset has written its snapshot; the one before it was past zero.
C7_Witness ==
    /\ ui_pc = "reset"
    /\ pub_field = 6
    /\ published.is_past_zero
    /\ current_speaker_index # -1
    /\ time_left = 1

(***************************************************************************)
(* C8.  _start_timer with no speaker loaded and an empty roster shows the  *)
(* "No Speaker" error and changes nothing else: running stays clear, no    *)
(* callback is registered, nothing is published.                           *)
(***************************************************************************)
C8_StartWithoutSpeakerFails ==
    [][(/\ UIReady
        /\ ~running
        /\ current_speaker_index = -1
        /\ speakers = <<>>
        /\ (StartNoSpeaker \/ StartInvalidTime \/ StartRuns)) =>
            /\ messagebox' = "No Speaker"
            /\ UNCHANGED <<timerVars, rosterVars, labelVars, pubVars, storeVars>>]_vars

C8_Witness ==
    /\ messagebox = "No Speaker"
    /\ ~running
    /\ pending = 0
    /\ timer_state = DefaultTimerState

C10_TimeTextFormat ==
    /\ TimeTextOf(time_left, timer_label_text, TRUE)
    /\ ui_pc = "idle" => timer_state.time_text = timer_label_text
    /\ time_left = 125 => timer_label_text = <<"0", "2", ":", "0", "5">>
    /\ time_left = -65 => timer_label_text = <<"-", "0", "1", ":", "0", "5">>
    /\ time_left = 0 => timer_label_text = <<"0", "0", ":", "0", "0">>

C10_Witness ==
    /\ time_left = 6000
    /\ ui_pc = "idle"
    /\ timer_state.time_text = <<"1", "0", "0", ":", "0", "0">>

\* The claim as made: the minutes are always two digits.
C10_AlwaysTwoDigitMinutes == TimeTextOf(time_left, timer_label_text, FALSE)

(***************************************************************************)
(* C11.  When a handler has returned (a tick, a load, a reset, a start, a  *)
(* stop or a roster edit), timer_state is the snapshot of the fields as    *)
(* they are now: time_text is the text of time_left, is_past_zero is       *)
(* time_left < 0, is_warning is set for 0 < time_left <= warning_threshold *)
(* and clear outside 0..warning_threshold, and the two names are those of  *)
(* the active speaker, "N/A" with none.  _stop_timer publishes nothing and *)
(* changes nothing a snapshot holds.                                       *)
(***************************************************************************)
C11_StoreIsCurrent ==
    ui_pc = "idle" =>
        /\ timer_state.time_text = DisplayTime(time_left)
        /\ timer_state.is_past_zero = (time_left < 0)
        /\ timer_state.is_warning => (0 <= time_left /\ time_left <= WarningThreshold)
        /\ (0 < time_left /\ time_left <= WarningThreshold) => timer_state.is_warning
        /\ timer_state.speaker_name =
              IF current_speaker_index = -1 THEN "N/A"
              ELSE speakers[current_speaker_index + 1].name
        /\ timer_state.speaker_segment =
              IF current_speaker_index = -1 THEN "N/A"
              ELSE speakers[current_speaker_index + 1].title

\* Stopped past zero with speaker B active: the last publication was a tick's.
C11_Witness ==
    /\ ui_pc = "idle"
    /\ ~running
    /\ ticks >= 2
    /\ time_left < 0
    /\ timer_state.is_past_zero
    /\ timer_state.speaker_name = "B"

(***************************************************************************)
(* C12.  When a handler has returned, the alert the main window shows in   *)
(* warning_message_label (ROUND UP!, TIME'S UP! or nothing) is the alert   *)
(* the speaker display shows for the flags of the snapshot in timer_state. *)
(* A load or a reset clears the main window's alert whatever the time is,  *)
(* and a tick to 0 shows ROUND UP! while is_warning is published False.    *)
(***************************************************************************)
C12_DisplaysAgree ==
    ui_pc = "idle" =>
        warning_message_label_text =
            UpdateDisplayWarning(timer_state.is_warning, timer_state.is_past_zero)

(***************************************************************************)
(* C13.  A GET of /timer_state is answered 200 and its body is the         *)
(* serialisation of timer_state as it was at the read, with exactly the    *)
(* five fields; a GET of any other path is answered 404 with the text      *)
(* "404 Not Found" and timer_state is not read.                            *)
(***************************************************************************)
C13_GetAnswers ==
    /\ [][(http_pc = "locked" /\ http_pc' = "write") => response' = timer_state]_vars
    /\ [](http_pc = "done" =>
             IF path = "/timer_state"
             THEN /\ status = 200
                  /\ wfile = response
                  /\ DOMAIN wfile = {"time_text", "speaker_name", "speaker_segment",
                                     "is_warning", "is_past_zero"}
             ELSE /\ status = 404
                  /\ wfile = NotFoundBody
                  /\ response = NoResponse)

C13_Witness ==
    /\ http_pc = "done"
    /\ path = "/timer_state"
    /\ status = 200
    /\ wfile.speaker_name = "A"
    /\ wfile.is_past_zero

C15_StoppedServerIsClosed == close_pc \in {"join", "destroy"} => httpd # "open"

(***************************************************************************)
(* C16.  Once _on_app_close has been entered, the main window is           *)
(* eventually destroyed, whatever the HTTP thread is doing.  shutdown()    *)
(* waits without a timeout for serve_forever, which does not leave a       *)
(* request whose client has connected and sends nothing.                   *)
(***************************************************************************)
C16_CloseCompletes == (close_pc # "none") ~> (close_pc = "destroyed")

(***************************************************************************)
(* C17.  When HTTPServer fails to bind, only the HTTP thread ends: the     *)
(* failure changes no field of the timer and nothing in timer_state;       *)
(* afterwards no request is served, ticks, loads, resets, starts and stops *)
(* count down and publish as they do otherwise (time_left is the loaded    *)
(* time minus the ticks, timer_state is the snapshot of the fields), and   *)
(* _on_app_close, once entered, destroys the main window.                  *)
(***************************************************************************)
C17_BindFailureLosesOnlyHttp ==
    /\ [][(server_pc = "start" /\ server_pc' = "dead") =>
             UNCHANGED <<uiVars, storeVars, close_pc>>]_vars
    /\ [](server_pc = "dead" => (httpd = "none" /\ http_pc = "idle"))
    /\ []((server_pc = "dead" /\ ui_pc = "idle") =>
             /\ time_left = loaded_time - ticks
             /\ timer_state = SharedTimerState(time_left, DisplayTime(time_left),
                                               current_speaker_index, speakers))
    /\ (server_pc = "dead" /\ close_pc # "none") ~> (close_pc = "destroyed")

\* The bind failed, the timer ran past zero, the window was closed.
C17_Witness ==
    /\ server_pc = "dead"
    /\ close_pc = "destroyed"
    /\ ticks >= 2
    /\ timer_state.is_past_zero

(***************************************************************************)
(* C18.  With warning_threshold = 60 and a speaker loaded with 65 s, after *)
(* 5 executions of _update_timer in one run time_left = 60 and the         *)
(* published is_warning is True; after 66, time_left = -1, is_past_zero is *)
(* True and is_warning False.                                              *)
(***************************************************************************)
C18_ThresholdScenario ==
    (loaded_time = 65 /\ ui_pc = "idle") =>
        /\ ticks = 5 =>
              (time_left = 60 /\ timer_state.is_warning /\ ~timer_state.is_past_zero)
        /\ ticks = 66 =>
              (time_left = -1 /\ timer_state.is_past_zero /\ ~timer_state.is_warning)

C18_Witness ==
    /\ loaded_time = 65
    /\ ui_pc = "idle"
    /\ ticks = 66
    /\ time_left = -1
    /\ timer_state.is_past_zero

(***************************************************************************)
(* C19.  At most one _update_timer callback is pending at any time.        *)
(* _stop_timer does not cancel the pending callback and _start_timer       *)
(* registers another: stop then start within a second leaves two.          *)
(***************************************************************************)
C19_AtMostOneCallback == pending <= 1

(***************************************************************************)
(* C20.  current_speaker_index is -1 or an index of the roster, and        *)
(* running implies that a speaker is loaded.                               *)
(***************************************************************************)
C20_IndexValid ==
    /\ -1 <= current_speaker_index
    /\ current_speaker_index < Len(speakers)
    /\ running => current_speaker_index # -1

\* Running with the last of two speakers active.
C20_Witness ==
    /\ running
    /\ Len(speakers) = 2
    /\ current_speaker_index = 1
    /\ ticks >= 1

(***************************************************************************)
(* C21: the HTTP thread only reads.  Every step of a request, on any path, *)
(* leaves timer_state, time_left, running, the roster and the index of the *)
(* active speaker unchanged (and everything else the UI thread owns); a    *)
(* step that changes the store or the countdown state is not a step of the *)
(* request handler or of the server thread.                                *)
(***************************************************************************)
C21_HttpOnlyReads ==
    [][/\ (httpVars' # httpVars) =>
            /\ UNCHANGED <<timer_state, published, time_left, running, speakers,
                           current_speaker_index>>
            /\ UNCHANGED uiVars
       /\ (<<timer_state, time_left, running, speakers, current_speaker_index>>' #
           <<timer_state, time_left, running, speakers, current_speaker_index>>) =>
            UNCHANGED <<httpVars, serverVars>>]_vars

\* A request has been answered from a store that holds a running countdown's
\* snapshot, and a request on another path has been answered too.
C21_Witness ==
    /\ http_pc = "done"
    /\ path = "/timer_state"
    /\ wfile = timer_state
    /\ running
    /\ timer_state # DefaultTimerState
    /\ current_speaker_index >= 0

C21_WitnessOtherPath ==
    /\ http_pc = "done"
    /\ path # "/timer_state"
    /\ status = 404
    /\ timer_state # DefaultTimerState

(***************************************************************************)
(* C22: the lock is held only for the copy-in and the copy-out.  The HTTP  *)
(* thread holds it only between entering the with block and json.dumps,    *)
(* the UI thread only while it writes the five fields; no step that writes *)
(* the response to wfile is taken by a handler holding the lock, and no    *)
(* step that changes a label of the main window or the speaker display is  *)
(* taken with the UI thread holding it.                                    *)
(***************************************************************************)
C22_LockOnlyForCopy ==
    /\ [](/\ timer_state_lock = "http" => http_pc = "locked"
          /\ timer_state_lock = "ui" => pub_field \in 1..6
          /\ http_pc \in {"write", "done", "notfound"} => timer_state_lock # "http"
          /\ pub_field \in {0, 7} => timer_state_lock # "ui")
    /\ [][/\ (wfile' # wfile) => (timer_state_lock # "http" /\ timer_state_lock' # "http")
          /\ (speaker_display_window' # speaker_display_window \/ labelVars' # labelVars) =>
                (timer_state_lock # "ui" /\ timer_state_lock' # "ui")]_vars

\* Both threads are at their output step, the handler about to write a
\* response and the UI thread about to update the speaker display, and the
\* lock is free.
C22_Witness ==
    /\ http_pc = "write"
    /\ response # DefaultTimerState
    /\ pub_field = 7
    /\ WindowExists
    /\ timer_state_lock = "free"

(***************************************************************************)
(* C23: neither thread is blocked indefinitely by the other on the store.  *)
(* The owner of the lock can always take its next step by itself, whatever *)
(* the other thread does, so under fair scheduling the lock is always      *)
(* released again, every publication completes and every read of           *)
(* /timer_state gets to its response (as long as the process lives).       *)
(***************************************************************************)
C23_LockAlwaysReleased ==
    /\ [](timer_state_lock = "ui" => ENABLED (PubWrite \/ PubRelease))
    /\ [](timer_state_lock = "http" /\ ProcessAlive => ENABLED HttpDumps)
    /\ (timer_state_lock = "ui") ~> (timer_state_lock # "ui")
    /\ (timer_state_lock = "http") ~> (timer_state_lock # "http" \/ ~ProcessAlive)
    /\ (pub_queue # <<>>) ~> (pub_queue = <<>>)
    /\ (http_pc = "headers") ~> (http_pc = "write" \/ ~ProcessAlive)

\* The UI thread has a snapshot to publish and waits for the lock, which the
\* request handler holds.
C23_Witness ==
    /\ pub_queue # <<>>
    /\ pub_field = 0
    /\ timer_state_lock = "http"
    /\ http_pc = "locked"

\* The request handler waits for the lock, which the UI thread holds.
C23_WitnessHttpWaits ==
    /\ http_pc = "headers"
    /\ timer_state_lock = "ui"

(***************************************************************************)
(* C24: _reset_timer while running stops the countdown: the step leaves    *)
(* running cleared and time_left at the active speaker's allocation, and   *)
(* a callback that was pending when the reset was made (reset_pending      *)
(* counts those not yet fired; callbacks fire in the order they were       *)
(* registered) leaves time_left as it is when it fires.                    *)
(***************************************************************************)
C24_ResetStopsCountdown ==
    [][/\ (running /\ ResetToAllocation) =>
            (~running' /\ time_left' = ActiveAllocation' /\ pending' = pending)
       /\ (CallbackFires /\ reset_pending > 0) => time_left' = time_left]_vars

\* Reset while running, with the callback of the countdown still pending.
C24_ResetWhileRunning ==
    /\ ~running
    /\ reset_pending > 0
    /\ pending > 0
    /\ time_left = ActiveAllocation
    /\ ui_pc = "idle"

(***************************************************************************)
(* C25: _start_timer while running does nothing.  No step taken with       *)
(* running set begins a publication by _start_timer (which is where start  *)
(* counts down, reloads and republishes) or adds a pending callback: the   *)
(* only steps that count down while running are callbacks firing.          *)
(***************************************************************************)
C25_StartWhileRunningNoOp ==
    [][running =>
          /\ ~(ui_pc = "idle" /\ ui_pc' = "start")
          /\ pending' <= pending
          /\ (ui_pc = "idle" /\ time_left' = Decrement(time_left) /\ loaded_time' = loaded_time)
                => CallbackFires]_vars

\* The countdown runs, one callback pending, in a state where START can be
\* pressed again.
C25_Witness ==
    /\ running
    /\ UIReady
    /\ ENABLED StartAlreadyRunning
    /\ pending = 1
    /\ ticks >= 2
    /\ time_left = loaded_time - ticks

(***************************************************************************)
(* C26: _next_speaker on a roster of n > 0 speakers, running or not,       *)
(* leaves running cleared, makes speaker (i + 1) mod n active (speaker 0   *)
(* from i = -1), sets time_left to that speaker's allocation and publishes *)
(* one snapshot with that speaker's name and segment and the allocation's  *)
(* time text, which is what timer_state holds when the publication ends;   *)
(* on an empty roster it only raises the "Roster Empty" dialog.            *)
(***************************************************************************)
C26_NextSpeakerLoads ==
    /\ [][/\ (ui_pc = "idle" /\ ui_pc' = "next") =>
                /\ speakers # <<>>
                /\ ~running'
                /\ current_speaker_index' = (current_speaker_index + 1) % Len(speakers)
                /\ speakers' = speakers
                /\ time_left' = ActiveAllocation'
                /\ Len(pub_queue') = 1
                /\ pub_queue'[1].speaker_name = speakers[current_speaker_index' + 1].name
                /\ pub_queue'[1].speaker_segment = speakers[current_speaker_index' + 1].title
                /\ pub_queue'[1].time_text = DisplayTime(ActiveAllocation')
          /\ NextSpeaker => (ui_pc = "idle" /\ ui_pc' = "next")
          /\ NextSpeakerEmpty =>
                UNCHANGED <<timerVars, rosterVars, labelVars, pubVars, storeVars>>]_vars
    /\ []((ui_pc = "next" /\ pub_field = 6) =>
             /\ ~running
             /\ time_left = ActiveAllocation
             /\ timer_state.speaker_name = speakers[current_speaker_index + 1].name
             /\ timer_state.speaker_segment = speakers[current_speaker_index + 1].title
             /\ timer_state.time_text = DisplayTime(ActiveAllocation))

\* Next speaker pressed on the last of two speakers while the countdown was
\* running below zero: the first speaker is loaded and published, the
\* countdown's callback still pending.
C26_Witness ==
    /\ ui_pc = "next"
    /\ pub_field = 6
    /\ Len(speakers) = 2
    /\ current_speaker_index = 0
    /\ pending > 0
    /\ published.is_past_zero
    /\ published.speaker_name = speakers[2].name
    /\ speakers[1].name # speakers[2].name

\* Pressed on an empty roster.
C26_WitnessEmpty == messagebox = "Roster Empty" /\ speakers = <<>>

(***************************************************************************)
(* C27: removing the active speaker, running or not, leaves running        *)
(* cleared, no speaker loaded and time_left = 0, and publishes the default *)
(* snapshot ("N/A", "N/A", "00:00", no flag), which is what timer_state    *)
(* holds when the publication ends.  Removing another speaker leaves       *)
(* running, time_left, the store and the publication state unchanged and   *)
(* the same entry active, its index one lower when the removed entry       *)
(* preceded it.                                                            *)
(***************************************************************************)
C27_RemoveSpeaker ==
    /\ [][/\ (Len(speakers') < Len(speakers) /\ current_speaker_index = selection) =>
                /\ ~running'
                /\ current_speaker_index' = -1
                /\ time_left' = 0
                /\ speakers' = DeleteAt(speakers, selection)
                /\ ui_pc' = "remove"
                /\ pub_queue' = <<DefaultTimerState>>
          /\ (Len(speakers') < Len(speakers) /\ current_speaker_index # selection) =>
                /\ running' = running
                /\ time_left' = time_left
                /\ UNCHANGED <<storeVars, pubVars, labelVars>>
                /\ speakers' = DeleteAt(speakers, selection)
                /\ current_speaker_index' =
                      IF selection < current_speaker_index
                      THEN current_speaker_index - 1
                      ELSE current_speaker_index
                /\ current_speaker_index # -1 =>
                      speakers'[current_speaker_index' + 1] = speakers[current_speaker_index + 1]]_vars
    /\ []((ui_pc = "remove" /\ pub_field = 6) =>
             /\ ~running
             /\ current_speaker_index = -1
             /\ time_left = 0
             /\ timer_state = DefaultTimerState
             /\ timer_state.speaker_name = "N/A"
             /\ timer_state.time_text = <<"0", "0", ":", "0", "0">>)

\* The active speaker was removed while the countdown was running below
\* zero, another speaker staying in the roster; the default snapshot is in
\* the store and the countdown's callback is still pending.
C27_Witness ==
    /\ ui_pc = "remove"
    /\ pub_field = 6
    /\ pending > 0
    /\ published.is_past_zero
    /\ speakers # <<>>

\* Another speaker than the active one was removed while the countdown ran:
\* the second of two, with the first, active one left.
C27_WitnessOther ==
    /\ running
    /\ Len(speakers) = 1
    /\ current_speaker_index = 0
    /\ selection = -1
    /\ published.speaker_name = speakers[1].name
    /\ ticks > 0

(***************************************************************************)
(* C28: the speaker display blinks by the flags of the last snapshot it    *)
(* was given.  When update_display returns (the step leaving pub_field 7)  *)
(* _is_blinking is is_warning \/ is_past_zero of that snapshot; between    *)
(* handlers a blink callback is pending exactly when the window blinks,    *)
(* and never more than one, however many ticks delivered snapshots; the    *)
(* background is the normal one when the window does not blink.            *)
(***************************************************************************)
C28_BlinkingFollowsFlags ==
    /\ [][(pub_field = 7 /\ pub_field' # 7) =>
              /\ speaker_display_window'.is_blinking =
                    (timer_state.is_warning \/ timer_state.is_past_zero)
              /\ speaker_display_window'.warning_message_label =
                    UpdateDisplayWarning(timer_state.is_warning, timer_state.is_past_zero)]_vars
    /\ [](WindowExists =>
             /\ speaker_display_window.blink_jobs <= 1
             /\ speaker_display_window.blink_jobs =
                   (IF speaker_display_window.is_blinking THEN 1 ELSE 0)
             /\ speaker_display_window.blink_job_id = speaker_display_window.is_blinking
             /\ ~speaker_display_window.is_blinking =>
                   speaker_display_window.bg = "normal"
             /\ ui_pc = "idle" =>
                   speaker_display_window.is_blinking =
                      (published.is_warning \/ published.is_past_zero))

\* Three ticks have delivered warning snapshots to a blinking display whose
\* blink callback has fired in between (the background is in its normal
\* phase), with one callback pending.
C28_Witness ==
    /\ WindowExists
    /\ ui_pc = "idle"
    /\ ticks = 3
    /\ published.is_warning
    /\ speaker_display_window.is_blinking
    /\ speaker_display_window.bg = "normal"
    /\ speaker_display_window.blink_jobs = 1

\* The display stopped blinking: a reset took the countdown from below zero
\* back to an allocation above the threshold.
C28_WitnessStopped ==
    /\ WindowExists
    /\ ui_pc = "idle"
    /\ pending > 0
    /\ ~published.is_warning /\ ~published.is_past_zero
    /\ published.speaker_name = "A"
    /\ ~speaker_display_window.is_blinking
    /\ speaker_display_window.speaker_name_label = "A"

(***************************************************************************)
(* C29: update_display is idempotent.  For the speaker display in any      *)
(* reachable state and any snapshot (the stored one, the last published    *)
(* one, the defaults, each with every combination of the two flags), a     *)
(* second update_display with the same snapshot leaves the texts,          *)
(* _is_blinking, the pending blink callback and the background as the      *)
(* first left them; and between handlers, whatever phase the blinking is   *)
(* in, showing the last published snapshot again changes nothing.          *)
(***************************************************************************)
SnapshotsToShow ==
    {[s EXCEPT !.is_warning = w, !.is_past_zero = z] :
        s \in {timer_state, published, DefaultTimerState}, w \in BOOLEAN, z \in BOOLEAN}

C29_UpdateDisplayIdempotent ==
    WindowExists =>
        /\ \A s \in SnapshotsToShow :
              UpdateDisplay(UpdateDisplay(speaker_display_window, s), s) =
                  UpdateDisplay(speaker_display_window, s)
        /\ ui_pc = "idle" =>
              UpdateDisplay(speaker_display_window, published) = speaker_display_window

\* A blinking display in the normal phase of its background, showing a
\* warning snapshot of a running countdown: the case in which a repeated
\* _start_blinking would show.
C29_Witness ==
    /\ WindowExists
    /\ ui_pc = "idle"
    /\ running
    /\ published.is_warning
    /\ speaker_display_window.is_blinking
    /\ speaker_display_window.bg = "normal"
    /\ speaker_display_window.timer_label = published.time_text
    /\ UpdateDisplay(speaker_display_window, published) = speaker_display_window

====
